---- MODULE Spec2Model ----
(***************************************************************************)
(* kagiyama: the readiness probe (src/src/readiness_probe.rs) and the      *)
(* Watcher's HTTP server with its termination channel (src/src/watcher.rs).*)
(*                                                                         *)
(* Spec       the probe shared by concurrent callers of mark_ready /       *)
(*            mark_not_ready and one HTTP connection handler.              *)
(* SeqSpec    the same, with mark calls that never overlap.                *)
(* ServerSpec the Watcher's server tasks and the broadcast channel, under  *)
(*            the fairness the tokio runtime gives to spawned tasks.       *)
(* WatcherSpec the same tasks with the Watcher's clones, drops and registry.*)
(* LiveSpec   mark calls against /ready requests under fair scheduling.    *)
(***************************************************************************)
EXTENDS Integers, FiniteSets, Sequences, TLC

\* ------------------------------------------------------------------ bounds
\* largest condition enum explored (0 = AlwaysReady)
NumConditions == 2
\* concurrent users of probe handles
NumMarkers == 2
\* start_server calls in a run
NumServers == 2
\* requests one server handles at a time
MaxInflight == 1
\* Watcher handles alive at once (the Watcher and its clones)
MaxWatchers == 2
\* sub-registries created in a run
MaxSubRegistries == 1

\* broadcast::channel::<()>(1), watcher.rs line 34
ChannelCapacity == 1

VARIABLES
    cset,        \* the variants of C (C::iter()); {} for AlwaysReady
    maps,        \* the heap of HashMap<C, bool> cells behind Arc<RwLock<..>>
    gauges,      \* the heap of gauge cells (the Arc<AtomicU64> inside a Gauge)
    lock,        \* the RwLock: [writer |-> BOOLEAN, readers |-> Nat]
    marker,      \* per caller: where it is in set_condition_readiness
    reader,      \* the connection handler: where it is in a request
    marked,      \* history: conditions a mark_ready has written
    fullBefore,  \* history: is_ready() just before the latest write
    quiet,       \* history: no write since the reader evaluated is_ready()
    srv,         \* per start_server call: the spawned task and its receiver
    stopResult,  \* what the latest stop_server call returned
    watchers,    \* Watcher handles alive: each owns a Sender and an Arc<Registry>
    registry,    \* the Registry: how many sub-registries it holds
    regHandle,   \* a &mut Registry returned by sub_registry is still borrowed
    subResult    \* what the latest sub_registry call returned

probeVars == <<cset, maps, gauges, lock, marker, reader, marked, fullBefore, quiet>>
watcherVars == <<watchers, registry, regHandle, subResult>>
serverVars == <<srv, stopResult, watcherVars>>
vars == <<probeVars, serverVars>>

Markers == 1..NumMarkers
ConditionSets == {1..k : k \in 0..NumConditions}

\* ------------------------------------------------------- readiness_probe.rs

\* an insert that rebuilds the map from the one pair it is given
insert_only(map, k, v) == [x \in {k} |-> v]

\* HashMap::insert: adds the key, or replaces the value of a key that is there
insert(map, k, v) == [x \in (DOMAIN map) \cup {k} |-> IF x = k THEN v ELSE map[x]]

\* is_ready with `any` in place of `all`, no case for the empty map
is_ready_any(map) == \E k \in DOMAIN map : map[k]

\* is_ready, lines 37-41, on the map the read guard gives
is_ready(map) ==
    IF DOMAIN map = {} THEN TRUE ELSE \A k \in DOMAIN map : map[k]

\* the match of update_up_metric, lines 45-48
gauge_value(ready) == IF ready THEN 1 ELSE 0

\* a constructor that starts every condition at true
initial_conditions_true(cs) == [c \in cs |-> TRUE]

\* C::iter().map(|c| (c, false)).collect(), line 24
initial_conditions(cs) == [c \in cs |-> FALSE]

\* the branch after the insert, lines 53-57
after_insert(ready) == IF ready THEN "is_ready" ELSE "set_zero"

\* ReadinessProbe::default, lines 24-25: allocates the mapping and the gauge
root_probe == [conditions |-> 0, up |-> 0]

\* Gauge::clone (prometheus_client): another handle on the same atomic cell
clone_gauge(g) == g

\* a clone that copies the mapping and the gauge into cells of its own
clone_probe_deep(h) == [conditions |-> h.conditions + 1, up |-> h.up + 1]

\* #[derive(Clone)] on ReadinessProbe, line 15: Arc::clone of the mapping and
\* a clone of the boxed gauge
clone_probe(h) == [conditions |-> h.conditions, up |-> clone_gauge(h.up)]

\* readiness_probe.up.clone() registered as "up", watcher.rs line 36
registered_up == clone_gauge(root_probe.up)

\* Watcher::readiness_conditions, watcher.rs lines 59-61
readiness_conditions == clone_probe(root_probe)

\* the probe of a clone of the Watcher (#[derive(Clone)], watcher.rs line 21),
\* and what that clone's readiness_conditions() returns
watcher_clone_probe == clone_probe(root_probe)

\* the probe a request handler uses: start_server's clone (watcher.rs line 65)
\* cloned again for each request (line 72)
server_probe == clone_probe(clone_probe(root_probe))

ProbeHandles == {root_probe, readiness_conditions, watcher_clone_probe,
                 clone_probe(watcher_clone_probe), server_probe}
MapRefs == {h.conditions : h \in ProbeHandles}
GaugeRefs == {h.up : h \in ProbeHandles} \cup {registered_up}

\* the mapping and the gauge as the Watcher's own probe reads them
conditions == maps[root_probe.conditions]
up == gauges[registered_up]

\* conditions.iter() of line 40: the entries the iterator has not yielded yet
\* (a HashMap yields them in an order of its own)
unvisited(map, seen) == (DOMAIN map) \ seen

\* lines 36-40: what the call returns at this point of the iteration, if it
\* returns: true for the empty map and when `all` has run out of entries,
\* false as soon as `all` meets a false value
is_ready_returns(map, seen) ==
    IF unvisited(map, seen) = {} THEN {TRUE}
    ELSE IF \E k \in unvisited(map, seen) : ~map[k] THEN {FALSE}
    ELSE {}

IdleMarker == [pc |-> "idle", condition |-> 0, ready |-> FALSE, val |-> 0]
IdleReader == [pc |-> "idle", op |-> "none", ready |-> FALSE, seen |-> {},
               status |-> 0, body |-> {}, gauge |-> 0,
               path |-> "none", text |-> ""]

\* serde_json::to_string of the map: a JSON object, as its set of members
to_json(map) == {<<k, map[k]>> : k \in DOMAIN map}

\* ReadinessProbe::default, lines 23-31 (no server part yet)
ProbeInit ==
    /\ cset \in ConditionSets
    /\ maps = [r \in MapRefs |-> initial_conditions(cset)]
    /\ gauges = [r \in GaugeRefs |-> gauge_value(is_ready(initial_conditions(cset)))]
    /\ lock = [writer |-> FALSE, readers |-> 0]
    /\ marker = [m \in Markers |-> IdleMarker]
    /\ reader = IdleReader
    /\ marked = {}
    /\ fullBefore = is_ready(initial_conditions(cset))
    /\ quiet = FALSE

\* a write lock that is granted while read guards are out
WriteLock_ignores_readers(m, c, ready) ==
    /\ marker[m].pc = "idle"
    /\ ~lock.writer
    /\ lock' = [lock EXCEPT !.writer = TRUE]
    /\ marker' = [marker EXCEPT ![m] =
                     [IdleMarker EXCEPT !.pc = "insert", !.condition = c, !.ready = ready]]
    /\ UNCHANGED <<serverVars, cset, maps, gauges, reader, marked, fullBefore, quiet>>

\* mark_ready / mark_not_ready entering set_condition_readiness and taking the
\* write lock (conditions.write(), line 52)
WriteLock(m, c, ready) ==
    /\ marker[m].pc = "idle"
    /\ ~lock.writer /\ lock.readers = 0
    /\ lock' = [lock EXCEPT !.writer = TRUE]
    /\ marker' = [marker EXCEPT ![m] =
                     [IdleMarker EXCEPT !.pc = "insert", !.condition = c, !.ready = ready]]
    /\ UNCHANGED <<serverVars, cset, maps, gauges, reader, marked, fullBefore, quiet>>

mark_ready(m, c) == WriteLock(m, c, TRUE)
mark_not_ready(m, c) == WriteLock(m, c, FALSE)

\* an insert whose write guard lives on to the end of the function
Insert_keeps_guard(m) ==
    /\ marker[m].pc = "insert"
    /\ maps' = [maps EXCEPT ![readiness_conditions.conditions] =
                              insert(@, marker[m].condition, marker[m].ready)]
    /\ marker' = [marker EXCEPT ![m] =
                     [IdleMarker EXCEPT !.pc = after_insert(marker[m].ready)]]
    /\ marked' = IF marker[m].ready THEN marked \cup {marker[m].condition} ELSE marked
    /\ fullBefore' = is_ready(conditions)
    /\ quiet' = FALSE
    /\ UNCHANGED <<serverVars, cset, gauges, lock, reader>>

\* .insert(condition, ready); the guard is a temporary and is dropped at the
\* end of line 52, before the branch of line 53
Insert(m) ==
    /\ marker[m].pc = "insert"
    /\ maps' = [maps EXCEPT ![readiness_conditions.conditions] =
                              insert(@, marker[m].condition, marker[m].ready)]
    /\ lock' = [lock EXCEPT !.writer = FALSE]
    /\ marker' = [marker EXCEPT ![m] =
                     [IdleMarker EXCEPT !.pc = after_insert(marker[m].ready)]]
    /\ marked' = IF marker[m].ready THEN marked \cup {marker[m].condition} ELSE marked
    /\ fullBefore' = is_ready(conditions)
    /\ quiet' = FALSE
    /\ UNCHANGED <<serverVars, cset, gauges, reader>>

\* update_up_metric -> is_ready: conditions.read(), line 36
MarkerReadLock(m) ==
    /\ marker[m].pc = "is_ready"
    /\ ~lock.writer
    /\ lock' = [lock EXCEPT !.readers = @ + 1]
    /\ marker' = [marker EXCEPT ![m].pc = "eval"]
    /\ UNCHANGED <<serverVars, cset, maps, gauges, reader, marked, fullBefore, quiet>>

\* lines 37-41 under the read guard, which is_ready drops on return: the
\* whole iteration, as one step at the return (the handler's call, ReaderVisit
\* and ReaderEval below, is the same function entry by entry)
MarkerEval(m) ==
    /\ marker[m].pc = "eval"
    /\ lock' = [lock EXCEPT !.readers = @ - 1]
    /\ marker' = [marker EXCEPT ![m].pc = "set_up",
                                ![m].val = gauge_value(is_ready(
                                             maps[readiness_conditions.conditions]))]
    /\ UNCHANGED <<serverVars, cset, maps, gauges, reader, marked, fullBefore, quiet>>

\* self.up.set(..) of update_up_metric, line 45, then the return
SetUp(m) ==
    /\ marker[m].pc = "set_up"
    /\ gauges' = [gauges EXCEPT ![readiness_conditions.up] = marker[m].val]
    /\ marker' = [marker EXCEPT ![m] = IdleMarker]
    /\ quiet' = FALSE
    /\ UNCHANGED <<serverVars, cset, maps, lock, reader, marked, fullBefore>>

\* the else branch of line 55 without its gauge store
SetZero_no_store(m) ==
    /\ marker[m].pc = "set_zero"
    /\ marker' = [marker EXCEPT ![m] = IdleMarker]
    /\ UNCHANGED <<serverVars, cset, maps, gauges, lock, reader, marked, fullBefore, quiet>>

\* self.up.set(0), line 56, then the return
SetZero(m) ==
    /\ marker[m].pc = "set_zero"
    /\ gauges' = [gauges EXCEPT ![readiness_conditions.up] = 0]
    /\ marker' = [marker EXCEPT ![m] = IdleMarker]
    /\ quiet' = FALSE
    /\ UNCHANGED <<serverVars, cset, maps, lock, reader, marked, fullBefore>>

\* ------------------------------------------------ watcher.rs, request handler

\* status of the "/ready" arm, lines 88-91
ready_status(ready) == IF ready THEN 200 ELSE 503

\* a request arrives and its handler calls is_ready() (line 86; "observe" is a
\* caller that calls is_ready() and then reads the gauge, as /metrics renders it)
ReaderBegin(op) ==
    /\ reader.pc = "idle" \/ reader.pc = "done"
    /\ ~lock.writer
    /\ lock' = [lock EXCEPT !.readers = @ + 1]
    /\ reader' = [IdleReader EXCEPT !.pc = "eval", !.op = op]
    /\ UNCHANGED <<serverVars, cset, maps, gauges, marker, marked, fullBefore, quiet>>

\* `all` of line 40 takes an entry whose value is true and goes on
ReaderVisit ==
    /\ reader.pc = "eval"
    /\ \E k \in unvisited(maps[server_probe.conditions], reader.seen) :
          /\ maps[server_probe.conditions][k]
          /\ reader' = [reader EXCEPT !.seen = @ \cup {k}]
    /\ UNCHANGED <<serverVars, cset, maps, gauges, lock, marker, marked, fullBefore, quiet>>

\* is_ready returns and drops its read guard, lines 36-41
ReaderEval ==
    /\ reader.pc = "eval"
    /\ lock' = [lock EXCEPT !.readers = @ - 1]
    /\ \E r \in is_ready_returns(maps[server_probe.conditions], reader.seen) :
          reader' = [reader EXCEPT !.ready = r, !.seen = {},
                                   !.pc = IF reader.op = "ready" THEN "body" ELSE "gauge"]
    /\ quiet' = TRUE
    /\ UNCHANGED <<serverVars, cset, maps, gauges, marker, marked, fullBefore>>

\* readiness_conditions.conditions.read(), line 95
ReaderBodyLock ==
    /\ reader.pc = "body"
    /\ ~lock.writer
    /\ lock' = [lock EXCEPT !.readers = @ + 1]
    /\ reader' = [reader EXCEPT !.pc = "serialize"]
    /\ UNCHANGED <<serverVars, cset, maps, gauges, marker, marked, fullBefore, quiet>>

\* serde_json::to_string(..) under the second read guard, lines 87-99
ReaderRespond ==
    /\ reader.pc = "serialize"
    /\ lock' = [lock EXCEPT !.readers = @ - 1]
    /\ reader' = [reader EXCEPT !.pc = "done",
                                !.status = ready_status(reader.ready),
                                !.body = to_json(maps[server_probe.conditions])]
    /\ UNCHANGED <<serverVars, cset, maps, gauges, marker, marked, fullBefore, quiet>>

\* the gauge read (Gauge::get, as the encoder of line 78 reads it)
ReaderGauge ==
    /\ reader.pc = "gauge"
    /\ reader' = [reader EXCEPT !.pc = "done", !.gauge = gauges[registered_up]]
    /\ UNCHANGED <<serverVars, cset, maps, gauges, lock, marker, marked, fullBefore, quiet>>

\* the request paths and methods a client sends
Paths == {"/metrics", "/ready", "/alive", "/alive/", "/healthz"}
Methods == {"GET", "POST"}

\* a match that ignores a trailing slash
route_trailing_slash(path) ==
    CASE path = "/metrics" -> "metrics"
      [] path = "/ready" -> "ready"
      [] path \in {"/alive", "/alive/"} -> "alive"
      [] OTHER -> "not_found"

\* match req.uri().path(), lines 75-111: the arm a path selects
route(path) ==
    CASE path = "/metrics" -> "metrics"
      [] path = "/ready" -> "ready"
      [] path = "/alive" -> "alive"
      [] OTHER -> "not_found"

\* the "/alive" arm, lines 101-105, and the `_` arm, lines 106-110; the
\* handler never looks at the method
static_response(path, method) ==
    IF route(path) = "alive" THEN [status |-> 200, text |-> "alive"]
                             ELSE [status |-> 404, text |-> "Not found"]

\* a request that the "/alive" arm or the `_` arm answers
ReaderStatic(path, method) ==
    /\ reader.pc = "idle" \/ reader.pc = "done"
    /\ route(path) \in {"alive", "not_found"}
    /\ reader' = [IdleReader EXCEPT !.pc = "done", !.op = "static", !.path = path,
                                    !.status = static_response(path, method).status,
                                    !.text = static_response(path, method).text]
    /\ UNCHANGED <<serverVars, cset, maps, gauges, lock, marker, marked, fullBefore, quiet>>

ReaderStep ==
    \/ \E op \in {"ready", "observe"} : ReaderBegin(op)
    \/ \E path \in Paths, method \in Methods : ReaderStatic(path, method)
    \/ ReaderVisit
    \/ ReaderEval
    \/ ReaderBodyLock
    \/ ReaderRespond
    \/ ReaderGauge

MarkerStep(m) ==
    \/ Insert(m)
    \/ MarkerReadLock(m)
    \/ MarkerEval(m)
    \/ SetUp(m)
    \/ SetZero(m)

\* ------------------------------------------- watcher.rs, server and channel

Servers == 1..NumServers
\* the addresses a caller passes: one the process may bind, and one the OS
\* refuses (in use by another process, or no permission)
Addrs == {"free", "refused"}

NoServer == [state |-> "unused", addr |-> "none", subscribed |-> FALSE, pending |-> 0,
             inflight |-> 0, result |-> "none", stoppedIn |-> "no", late |-> FALSE]

\* Watcher::default, lines 31-45: the channel's first receiver is dropped at
\* once (the `_` of line 34), no server is running
ServerInit ==
    /\ srv = [s \in Servers |-> NoServer]
    /\ stopResult = "none"
    /\ watchers = 1
    /\ registry = 0
    /\ regHandle = FALSE
    /\ subResult = "none"

\* a caller has a Watcher it can call: one is alive, and it is not mutably
\* borrowed by a registry handle (sub_registry takes &mut self, line 50)
CanCall == watchers > 0 /\ ~regHandle

\* tasks that still own their broadcast::Receiver (the channel's rx_cnt)
Receivers == {s \in Servers : srv[s].subscribed}

\* the task of a start_server call has not ended
Running(s) == srv[s].state \in {"spawned", "listening", "accepting", "draining"}

\* start_server, lines 64-68 and 123: subscribe, spawn, return Ok(handle)
start_server(s, a) ==
    /\ CanCall
    /\ srv[s].state = "unused"
    /\ \A t \in Servers : t < s => srv[t].state # "unused"
    /\ srv' = [srv EXCEPT ![s] = [NoServer EXCEPT !.state = "spawned", !.addr = a,
                                                  !.subscribed = TRUE,
                                                  !.result = "Ok",
                                                  !.late = (stopResult = "Ok")]]
    /\ UNCHANGED <<probeVars, watcherVars, stopResult>>

\* whether Server::bind(&address) of line 70 gets the address
can_bind(s) ==
    /\ srv[s].addr # "refused"
    /\ \A t \in Servers :
          (t # s /\ srv[t].state \in {"listening", "accepting"})
              => srv[t].addr # srv[s].addr

\* the task starts: Server::bind(..).serve(..), line 70; bind panics when it
\* fails, which ends the task and drops what it owns (the address, the receiver)
Bind(s) ==
    /\ srv[s].state = "spawned"
    /\ srv' = [srv EXCEPT ![s] =
                  IF can_bind(s)
                  THEN [@ EXCEPT !.state = "listening"]
                  ELSE [@ EXCEPT !.state = "panicked", !.addr = "none",
                                 !.subscribed = FALSE, !.pending = 0]]
    /\ UNCHANGED <<probeVars, watcherVars, stopResult>>

\* the listener accepts a connection and its request is being handled; the
\* server accepts inside a poll that found the shutdown future pending
Accept(s) ==
    /\ srv[s].state = "accepting"
    /\ srv[s].inflight < MaxInflight
    /\ srv' = [srv EXCEPT ![s].inflight = @ + 1]
    /\ UNCHANGED <<probeVars, watcherVars, stopResult>>

\* a handler (lines 74-112) sends its response
Respond(s) ==
    /\ srv[s].state \in {"listening", "accepting", "draining"}
    /\ srv[s].inflight > 0
    /\ srv' = [srv EXCEPT ![s].inflight = @ - 1]
    /\ UNCHANGED <<probeVars, watcherVars, stopResult>>

\* what a receiver has not yet seen after one more send: beyond the capacity
\* the receiver has lagged
after_send(pending) ==
    IF pending + 1 > ChannelCapacity THEN ChannelCapacity + 1 ELSE pending + 1

\* a receiver created only by the running server, after its bind
reached_only_when_listening(s) == srv[s].state = "listening"

\* whether a send reaches the receiver of task s: it subscribed in
\* start_server (line 66), before the task was spawned
reached_by_send(s) == srv[s].subscribed

\* termination_signal.recv().await.ok(), line 117, completes on a value, on
\* Err(Lagged) and on Err(Closed) alike; the channel is closed when every
\* Sender (every Watcher handle) has been dropped
recv_completes(pending) == pending > 0 \/ watchers = 0

\* what is left unseen after one recv: a value is consumed, a lagged receiver
\* is moved to the oldest value kept
after_recv(pending) ==
    IF pending > ChannelCapacity THEN ChannelCapacity ELSE pending - 1

\* graceful.await, line 120: the task is polled; the shutdown future of lines
\* 116-118 is polled first: when it completes the listener is dropped and the
\* connections in flight are left to finish
ObserveSignal(s) ==
    /\ srv[s].state = "listening"
    /\ recv_completes(srv[s].pending)
    /\ srv' = [srv EXCEPT ![s].state = "draining",
                          ![s].pending = IF @ > 0 THEN after_recv(@) ELSE @]
    /\ UNCHANGED <<probeVars, watcherVars, stopResult>>

\* the same poll when the shutdown future is pending: the server goes on to
\* accept the connections that wait
PollListener(s) ==
    /\ srv[s].state = "listening"
    /\ ~recv_completes(srv[s].pending)
    /\ srv' = [srv EXCEPT ![s].state = "accepting"]
    /\ UNCHANGED <<probeVars, watcherVars, stopResult>>

\* no connection waits: the poll returns Pending and the task waits for a
\* connection or for the signal
Park(s) ==
    /\ srv[s].state = "accepting"
    /\ srv' = [srv EXCEPT ![s].state = "listening"]
    /\ UNCHANGED <<probeVars, watcherVars, stopResult>>

\* a shutdown that does not wait for the connections in flight
drained_at_once(s) == TRUE

\* whether the drained server's future (line 120) is complete
drained(s) == srv[s].inflight = 0

\* graceful.await returns, lines 120-123: the task ends, its receiver is dropped
Terminate(s) ==
    /\ srv[s].state = "draining"
    /\ drained(s)
    /\ srv' = [srv EXCEPT ![s].state = "terminated", ![s].addr = "none",
                          ![s].subscribed = FALSE, ![s].pending = 0]
    /\ UNCHANGED <<probeVars, watcherVars, stopResult>>

\* a send that never reports the missing receivers
send_result_always_ok(receivers) == "Ok"

\* the Result of termination_signal.send(()), line 129: an error when the
\* channel has no receiver
send_result(receivers) == IF receivers = {} THEN "Err" ELSE "Ok"

\* stop_server, lines 126-133
stop_server ==
    /\ CanCall
    /\ stopResult' = send_result(Receivers)
    /\ srv' = IF Receivers = {}
              THEN srv
              ELSE [s \in Servers |->
                      [srv[s] EXCEPT
                         !.pending = IF reached_by_send(s) THEN after_send(@) ELSE @,
                         !.stoppedIn = IF Running(s) /\ @ = "no"
                                       THEN srv[s].state ELSE @]]
    /\ UNCHANGED <<probeVars, watcherVars>>

\* #[derive(Clone)] on Watcher, lines 21-26: one more Arc<Registry> and Sender
clone_watcher ==
    /\ CanCall
    /\ watchers < MaxWatchers
    /\ watchers' = watchers + 1
    /\ UNCHANGED <<probeVars, srv, stopResult, registry, regHandle, subResult>>

\* a Watcher handle goes out of scope
drop_watcher ==
    /\ CanCall
    /\ watchers' = watchers - 1
    /\ UNCHANGED <<probeVars, srv, stopResult, registry, regHandle, subResult>>

\* the strong count of the Arc<Registry>: one per Watcher handle (line 23) and
\* one per server task, which owns the clone of line 64 until it ends
registry_holders == watchers + Cardinality({s \in Servers : Running(s)})

\* a uniqueness test that counts the Watcher handles only
get_mut_ignores_tasks == watchers = 1

\* Arc::get_mut, line 53: Some only for the sole owner
get_mut == registry_holders = 1

\* sub_registry, lines 49-57; sub_registry_with_prefix adds a sub-registry
sub_registry ==
    /\ CanCall
    /\ registry < MaxSubRegistries
    /\ IF get_mut
       THEN /\ subResult' = "Ok"
            /\ registry' = registry + 1
            /\ regHandle' = TRUE
       ELSE /\ subResult' = "Err"
            /\ UNCHANGED <<registry, regHandle>>
    /\ UNCHANGED <<probeVars, srv, stopResult, watchers>>

\* the caller lets go of the &mut Registry, which ends the borrow of the Watcher
release_registry ==
    /\ regHandle
    /\ regHandle' = FALSE
    /\ UNCHANGED <<probeVars, srv, stopResult, watchers, registry, subResult>>

ServerTask(s) ==
    \/ Bind(s)
    \/ ObserveSignal(s)
    \/ PollListener(s)
    \/ Park(s)
    \/ Respond(s)
    \/ Terminate(s)

Init == ProbeInit /\ ServerInit

Next ==
    \/ \E m \in Markers, c \in cset : mark_ready(m, c)
    \/ \E m \in Markers, c \in cset : mark_not_ready(m, c)
    \/ \E m \in Markers : MarkerStep(m)
    \/ ReaderStep

Spec == Init /\ [][Next]_vars

ServerNext ==
    \/ \E s \in Servers, a \in Addrs : start_server(s, a)
    \/ \E s \in Servers : ServerTask(s)
    \/ \E s \in Servers : Accept(s)
    \/ stop_server

\* the runtime runs every spawned task: it binds, a poll ends, the task is
\* woken by the signal, its handlers answer, and its future returns once
\* drained
ServerFairness ==
    \A s \in Servers :
        /\ WF_vars(Bind(s))
        /\ WF_vars(ObserveSignal(s))
        /\ WF_vars(Park(s))
        /\ WF_vars(Respond(s))
        /\ WF_vars(Terminate(s))

\* the server is explored over one probe, the largest condition set
ServerSpecInit == Init /\ cset = 1..NumConditions

ServerSpec == ServerSpecInit /\ [][ServerNext]_vars /\ ServerFairness

\* the Watcher with its clones and its registry
WatcherNext ==
    \/ \E s \in Servers, a \in Addrs : start_server(s, a)
    \/ \E s \in Servers : ServerTask(s)
    \/ \E s \in Servers : Accept(s)
    \/ stop_server
    \/ clone_watcher
    \/ drop_watcher
    \/ sub_registry
    \/ release_registry

WatcherSpec == ServerSpecInit /\ [][WatcherNext]_vars

\* mark calls that do not overlap: a call starts only when no other is running
AllIdle == \A m \in Markers : marker[m].pc = "idle"

SeqNext ==
    \/ \E m \in Markers, c \in cset : AllIdle /\ mark_ready(m, c)
    \/ \E m \in Markers, c \in cset : AllIdle /\ mark_not_ready(m, c)
    \/ \E m \in Markers : MarkerStep(m)
    \/ ReaderStep

SeqSpec == Init /\ [][SeqNext]_vars

\* mark calls against /ready requests, over the whole condition set
LiveInit == Init /\ cset = 1..NumConditions

LiveNext ==
    \/ \E m \in Markers, c \in cset : mark_ready(m, c)
    \/ \E m \in Markers, c \in cset : mark_not_ready(m, c)
    \/ \E m \in Markers : MarkerStep(m)
    \/ ReaderBegin("ready")
    \/ ReaderVisit
    \/ ReaderEval
    \/ ReaderBodyLock
    \/ ReaderRespond

\* fair scheduling: a caller that can take its next step takes it, and the
\* RwLock grants a read request that can be granted again and again
ProbeFairness ==
    /\ \A m \in Markers :
          /\ WF_vars(Insert(m) \/ MarkerEval(m) \/ SetUp(m) \/ SetZero(m))
          /\ SF_vars(MarkerReadLock(m))
    /\ WF_vars(ReaderVisit \/ ReaderEval \/ ReaderRespond)
    /\ SF_vars(ReaderBodyLock)

LiveSpec == LiveInit /\ [][LiveNext]_vars /\ ProbeFairness

\* ------------------------------------------------------------------ claims

\* every condition of the mapping is true
AllTrue == \A c \in DOMAIN conditions : conditions[c]
\* the conditions whose value is false
Unmet == {c \in DOMAIN conditions : ~conditions[c]}

\* C1: over a non-empty condition set, whenever no mark call is in progress
\* the gauge is 1 iff every condition is true, and 0 otherwise.
C1_QuiescentGaugeMatches ==
    (cset # {} /\ AllIdle) => /\ up \in {0, 1}
                              /\ (up = 1) <=> AllTrue

\* C2: a mark call updates mapping and gauge as one unit: a reader that reads
\* the mapping (is_ready) and then the gauge, with no write between its two
\* reads, sees the gauge that belongs to the mapping it saw.
C2_MarkIsAtomic ==
    (reader.pc = "done" /\ reader.op = "observe" /\ quiet)
        => (reader.ready <=> reader.gauge = 1)

\* C3: a /ready response is one snapshot: 200 iff every boolean of its own
\* body is true (or the body is {}), 503 iff some boolean of the body is false.
C3_ReadyResponseIsSnapshot ==
    (reader.pc = "done" /\ reader.op = "ready")
        => /\ (reader.status = 200) <=> (\A kv \in reader.body : kv[2])
           /\ (reader.status = 503) <=> (\E kv \in reader.body : ~kv[2])

\* C4: over a non-empty condition set is_ready() is false while some condition
\* was never marked ready, and the write of a mark_ready turns is_ready() from
\* false to true exactly when the marked condition was the only false one.
C4_ReadyOnlyAfterAllMarked ==
    /\ [](cset # {} /\ marked # cset => ~is_ready(conditions))
    /\ [][\A m \in Markers :
            (marker[m].pc = "insert" /\ marker'[m].pc # "insert" /\ marker[m].ready)
                => ((~is_ready(conditions) /\ is_ready(conditions'))
                        <=> Unmet = {marker[m].condition})]_vars

\* a mark_ready has just written the last unmet condition
C4_Witness ==
    cset # {} /\ marked = cset /\ ~fullBefore /\ is_ready(conditions)

\* C5: when mark calls do not overlap, after each completed call the gauge is
\* 1 if is_ready() and 0 otherwise; so a mark_not_ready on a fully ready probe
\* leaves is_ready() false and the gauge at 0 once it has returned.
C5_SequentialGaugeMatches ==
    AllIdle => /\ up \in {0, 1}
               /\ (up = 1) <=> AllTrue

\* a mark_not_ready written onto a fully ready probe has returned
C5_Witness ==
    cset # {} /\ AllIdle /\ fullBefore /\ ~AllTrue /\ up = 0

\* C6: for the empty condition set is_ready() is true and the gauge is 1 in
\* every state, and /ready answers 200 with the empty JSON object.
C6_AlwaysReady ==
    cset = {} => /\ is_ready(conditions)
                 /\ up = 1
                 /\ (reader.pc = "done" /\ reader.op = "ready")
                        => (reader.status = 200 /\ reader.body = {})

\* /ready has answered on an AlwaysReady probe
C6_Witness ==
    cset = {} /\ reader.pc = "done" /\ reader.op = "ready" /\ reader.status = 200

\* the task of server s has ended
Ended(s) == srv[s].state \in {"terminated", "panicked"}

\* C7: one successful stop_server stops all instances: every server whose
\* start_server had returned when stop_server was called eventually ends,
\* whether or not its task had begun listening.
C7_StopReachesEveryServer ==
    \A s \in Servers : (srv[s].stoppedIn # "no") ~> Ended(s)

\* two servers were stopped by a send, one of them before its task had begun
\* to listen, and both have shut down after listening
C7_Witness ==
    \E s, t \in Servers :
        /\ s # t
        /\ srv[s].stoppedIn = "spawned" /\ srv[s].state = "terminated"
        /\ srv[t].stoppedIn \in {"listening", "accepting"}
        /\ srv[t].state = "terminated"

\* C8: stop_server returns an error iff no server task still holds its
\* subscription (none started, or all ended), and an erroring call changes
\* nothing.
C8_StopErrorIffNoServer ==
    [][stop_server =>
          /\ (stopResult' = "Err") <=> (\A s \in Servers : ~Running(s))
          /\ (stopResult' = "Ok") <=> (\E s \in Servers : Running(s))
          /\ (stopResult' = "Err") => (srv' = srv)]_vars

\* stop_server has failed after every started server had ended
C8_Witness ==
    /\ stopResult = "Err"
    /\ \E s \in Servers : Ended(s)
    /\ \A s \in Servers : ~Running(s)

\* a connection is accepted by server s in this step
Accepted(s) == srv'[s].inflight > srv[s].inflight

\* C9 as stated: once stop_server has returned Ok, no server that was running
\* accepts another connection.
C9_NoAcceptAfterStopReturns ==
    [][\A s \in Servers : Accepted(s) => srv[s].stoppedIn = "no"]_vars

\* C9 as amended: a server accepts no connection once its task has received
\* the signal; its requests in flight are answered, none is dropped by the
\* shutdown, and the task ends once they are done.
C9_GracefulShutdown ==
    /\ [][\A s \in Servers :
            Accepted(s) => (srv[s].state = "accepting" /\ srv'[s].state = "accepting")]_vars
    /\ [](\A s \in Servers : Ended(s) => srv[s].inflight = 0)
    /\ \A s \in Servers :
          (srv[s].stoppedIn # "no" /\ srv[s].inflight > 0) ~> (srv[s].inflight = 0)
    /\ \A s \in Servers :
          (srv[s].state = "draining") ~> (srv[s].state = "terminated")

\* a server has received the signal while a request was in flight
C9_Witness ==
    \E s \in Servers :
        srv[s].state = "draining" /\ srv[s].inflight > 0 /\ srv[s].stoppedIn # "no"

\* C10: a start_server whose address cannot be bound reports an error; it
\* never returns success for a server that is not listening.
C10_BindFailureReported ==
    \A s \in Servers : srv[s].state = "panicked" => srv[s].result = "Err"

\* server s begins its graceful shutdown in this step
BeginsShutdown(s) ==
    srv[s].state \in {"listening", "accepting"} /\ srv'[s].state = "draining"

\* C11: a server that bound begins shutting down only if stop_server was
\* called after its start_server; cloning or dropping a handle, marking
\* conditions or a failed sub_registry never make a server stop.
C11_OnlyStopServerCancels ==
    [][\A s \in Servers : BeginsShutdown(s) => srv[s].stoppedIn # "no"]_vars

\* C12: a server started after a stop_server has completed is not stopped by
\* that earlier signal: it starts with nothing to receive and keeps serving
\* until a later stop_server call.
C12_NoReplayToLateServer ==
    [][\A s \in Servers :
          /\ (srv[s].state = "unused" /\ srv'[s].state = "spawned")
                 => srv'[s].pending = 0
          /\ (srv[s].late /\ BeginsShutdown(s)) => srv[s].stoppedIn # "no"]_vars

\* C13: a sub_registry call made while a server is running, with no registry
\* handle held, succeeds.
C13_SubRegistryWhileServing ==
    [][(sub_registry /\ \E s \in Servers : Running(s)) => subResult' = "Ok"]_vars

\* the caller's Watcher is the only holder of the registry
SoleHolder == watchers = 1 /\ \A s \in Servers : ~Running(s)

\* C14: a registry handle is never live while a server or a Watcher clone
\* shares the registry, so no request is in flight then; a sub_registry call
\* without exclusive access returns an error and changes nothing, and the
\* call succeeds once every other holder is gone.
C14_RegistryMutationExclusive ==
    /\ [](regHandle => (SoleHolder /\ \A s \in Servers : srv[s].inflight = 0))
    /\ [][sub_registry =>
            /\ (subResult' = "Ok") <=> SoleHolder
            /\ (subResult' = "Err") <=> ~SoleHolder
            /\ (subResult' = "Err") =>
                   (registry' = registry /\ regHandle' = regHandle /\ srv' = srv)]_vars

\* sub_registry has succeeded after the server that shared the registry ended
C14_Witness ==
    /\ regHandle /\ subResult = "Ok" /\ registry > 0
    /\ \E s \in Servers : srv[s].state = "terminated"

\* C15: every probe handle obtained from one Watcher reads one mapping and
\* one gauge: when a mark call through a handle writes a condition, the
\* value is there through every handle, and is_ready(), the /ready body and
\* the gauge are the same through every handle and in the registry.
C15_HandlesShareState ==
    /\ [](\A h1, h2 \in ProbeHandles :
            /\ is_ready(maps[h1.conditions]) = is_ready(maps[h2.conditions])
            /\ to_json(maps[h1.conditions]) = to_json(maps[h2.conditions])
            /\ gauges[h1.up] = gauges[h2.up]
            /\ gauges[h1.up] = gauges[registered_up])
    /\ [][\A m \in Markers :
            (marker[m].pc = "insert" /\ marker'[m].pc # "insert") =>
                \A h \in ProbeHandles :
                    maps'[h.conditions][marker[m].condition] = marker[m].ready]_vars

\* a mark_ready made through a caller's handle is in the /ready body the
\* server's handle produced, and the registry's gauge shows ready
C15_Witness ==
    /\ AllIdle /\ reader.op = "ready" /\ reader.status = 200
    /\ cset # {} /\ reader.body = {<<c, TRUE>> : c \in cset}
    /\ gauges[registered_up] = 1

\* marker m's insert happens in this step
Inserts(m) == marker[m].pc = "insert" /\ marker'[m].pc # "insert"

\* C16: a new probe maps every condition to false; the key set of the
\* mapping is the condition set in every state; a mark call changes the
\* value of the condition it names and no other, and nothing else changes
\* the mapping.
C16_KeySetFixed ==
    /\ (DOMAIN conditions = cset /\ \A c \in cset : conditions[c] = FALSE)
    /\ [](DOMAIN conditions = cset)
    /\ [][\A m \in Markers : Inserts(m) =>
              conditions' = [c \in cset |-> IF c = marker[m].condition
                                             THEN marker[m].ready
                                             ELSE conditions[c]]]_vars
    /\ [][(\A m \in Markers : ~Inserts(m)) => conditions' = conditions]_vars

\* after mark calls on two conditions, one reads true and one that was
\* marked ready and then not ready reads false
C16_Witness ==
    /\ AllIdle
    /\ \E c1, c2 \in cset : /\ conditions[c1] /\ ~conditions[c2]
                             /\ c2 \in marked

\* C17: the response to a request for a path other than /ready and /metrics
\* depends on the path alone, whatever the readiness state and the method:
\* 200 and `alive` for /alive, 404 and `Not found` for every other path; and
\* handling it changes neither the probe nor the registry.
C17_StaticRoutes ==
    /\ []((reader.pc = "done" /\ reader.op = "static") =>
            IF reader.path = "/alive"
            THEN reader.status = 200 /\ reader.text = "alive"
            ELSE reader.status = 404 /\ reader.text = "Not found")
    /\ [][(reader'.op = "static" /\ reader' # reader) =>
            /\ reader.pc \in {"idle", "done"} /\ reader'.pc = "done"
            /\ reader'.path \in Paths \ {"/ready", "/metrics"}
            /\ UNCHANGED <<maps, gauges, lock, marker, serverVars>>]_vars

\* /alive answered 200 while the probe is not ready and a mark call is in
\* progress
C17_Witness ==
    /\ reader.pc = "done" /\ reader.path = "/alive" /\ reader.status = 200
    /\ ~AllTrue /\ ~AllIdle

\* C18: an is_ready() call returns the conjunction of the mapping as it is
\* at the instant of the return, and no mark call writes the mapping while
\* a read guard is out: true means every condition was true at
\* once, false means some condition was false, never a mix of values from
\* before and after a write.
C18_IsReadyLinearizable ==
    /\ [][(reader.pc = "eval" /\ reader'.pc # "eval") =>
             reader'.ready = is_ready(conditions)]_vars
    /\ [][lock.readers > 0 => maps' = maps]_vars

\* the handler's is_ready() returned true over two conditions while a mark
\* call that wrote one of them is still on its way to the gauge
C18_Witness ==
    /\ reader.pc = "body" /\ reader.ready
    /\ Cardinality(cset) > 1
    /\ \E m \in Markers : marker[m].pc \in {"is_ready", "eval"}

====
